---- MODULE Spec2Model ----
(***************************************************************************)
(* A model of cppcmb.hpp: the runtime parser combinators of                *)
(* cppcmb::combinator_types<TokenIterator> and the helpers of              *)
(* cppcmb::detail they are built from.                                     *)
(*                                                                         *)
(* A token stream is a sequence `tokens`; a TokenIterator is an index      *)
(* 0..Len(tokens) into it (Len(tokens) is the end iterator).  The          *)
(* combinators never receive the end iterator, so nothing in the code can  *)
(* compare against it: dereferencing at or past the end is undefined       *)
(* behaviour.  What such a read yields is drawn in Init: `beyond` holds    *)
(* the tokens that over-reads happen to return, and a read past `beyond`   *)
(* aborts the process.                                                     *)
(***************************************************************************)
EXTENDS Integers, Sequences, FiniteSets, TLC

VARIABLES tokens, beyond, pc, cmb, it, res, calls, loop, fold

vars == <<tokens, beyond, pc, cmb, it, res, calls, loop, fold>>

(***************************************************************************)
(* Bounds of the model.                                                    *)
(***************************************************************************)
MaxLen == 3
MaxOver == 1
MaxSeq == 2

\* Tokens are characters: a digit d stands for itself and 10 for the
\* operator '+'.  Streams and over-reads are drawn from the digit '1' and
\* the operator.
Token == {1, 10}

\* The stream of the worked examples, '1' '+' '2', and one that starts with
\* two different digits.
Scenario == <<1, 10, 2>>
TwoDigits == <<1, 2, 10>>

RECURSIVE SeqsUpTo(_, _)
SeqsUpTo(S, n) ==
    IF n = 0 THEN {<<>>}
    ELSE LET shorter == SeqsUpTo(S, n - 1)
         IN  shorter \cup {Append(s, x) : s \in {t \in shorter : Len(t) = n - 1}, x \in S}

(***************************************************************************)
(* Values.  The C++ type of a value is carried as its tag `t`:             *)
(*   tok       a token of the stream                                       *)
(*   int       a number computed by a user transformation                  *)
(*   tuple     std::tuple<...> of the values e                             *)
(*   optional  std::optional<T>, a = 1 and e = <<v>> when engaged          *)
(*   maybe     detail::maybe<T>, same layout as optional                   *)
(*   vector    the repetition container, elements e                        *)
(***************************************************************************)
Tok(x) == [t |-> "tok", a |-> x, e |-> <<>>]
Num(n) == [t |-> "int", a |-> n, e |-> <<>>]
Tuple(es) == [t |-> "tuple", a |-> 0, e |-> es]
std_optional(es) == [t |-> "optional", a |-> Len(es), e |-> es]
Vector(es) == [t |-> "vector", a |-> 0, e |-> es]

\* detail::maybe<T>: an optional of its own type, never a std::optional.
maybe(es) == [t |-> "maybe", a |-> Len(es), e |-> es]

\* maybe_ctors::make_maybe(val)
make_maybe(val) == maybe(<<val>>)

\* An is_maybe that also matches std::optional.
is_maybe_any_optional(v) == v.t \in {"maybe", "optional"}

\* detail::is_maybe_v
is_maybe(v) == v.t = "maybe"

\* detail::as_tuple: wraps a value into a tuple unless it is one already.
as_tuple(arg) == IF arg.t = "tuple" THEN arg ELSE Tuple(<<arg>>)

\* detail::unwrap_tuple: std::tuple<T> becomes T, repeatedly.
RECURSIVE unwrap_tuple(_)
unwrap_tuple(arg) ==
    IF arg.t = "tuple" /\ Len(arg.e) = 1 THEN unwrap_tuple(arg.e[1]) ELSE arg

\* detail::tuple_of: the argument itself when there is exactly one.
tuple_of(args) == IF Len(args) = 1 THEN args[1] ELSE Tuple(args)

\* A concat that makes a tuple of its arguments instead of concatenating.
concat_nested(x, y) == Tuple(<<x, y>>)

\* detail::concat, as called with two arguments by cmb_seq_fn.
concat(x, y) == unwrap_tuple(Tuple(as_tuple(x).e \o as_tuple(y).e))

(***************************************************************************)
(* Results: std::optional<std::pair<data, TokenIterator>>.  An empty       *)
(* optional is Failure.  Two more outcomes are not results but ways of     *)
(* never returning: the process aborted on an over-read, or a repetition   *)
(* loops forever.                                                          *)
(***************************************************************************)
Unit == Tuple(<<>>)

\* combinator_types::make_result
make_result(data, i) == [kind |-> "success", first |-> data, second |-> i]

\* combinator_types::result_type<T>(): the disengaged optional.
Failure == [kind |-> "failure", first |-> Unit, second |-> 0]

Crash == [kind |-> "crash", first |-> Unit, second |-> 0]
Diverge == [kind |-> "diverge", first |-> Unit, second |-> 0]
NoResult == [kind |-> "none", first |-> Unit, second |-> 0]

Succeeded(r) == r.kind = "success"
Failed(r) == r.kind = "failure"
Abnormal(r) == r.kind \in {"crash", "diverge"}

(***************************************************************************)
(* Transformations (the Mapper of map).                                    *)
(***************************************************************************)
NoMapper == [m |-> "none", f |-> "", idx |-> <<>>]
Filter(p) == [m |-> "filter", f |-> p, idx |-> <<>>]
Select(idx) == [m |-> "select", f |-> "", idx |-> idx]
Fn(f) == [m |-> "fn", f |-> f, idx |-> <<>>]

IsDigitTok(v) == v.t = "tok" /\ v.a < 10

RECURSIVE SumDigits(_)
SumDigits(args) ==
    IF args = <<>> THEN 0
    ELSE (IF IsDigitTok(args[1]) THEN args[1].a ELSE 0) + SumDigits(Tail(args))

\* The user predicates a filter is instantiated with.
Predicate(p, args) ==
    CASE p = "isDigit" -> \A i \in 1..Len(args) : IsDigitTok(args[i])
      [] p = "isOp"    -> \A i \in 1..Len(args) : args[i].t = "tok" /\ args[i].a = 10

\* detail::fn_wrap<Callable>: the user functions used as transformations.
\*   sumDigits   total, the sum of the digit tokens among the arguments
\*   toOptional  total, a std::optional that is disengaged unless all
\*               the arguments are digits
\*   mkTuple     total, std::make_tuple of the arguments
\*   tryDigits   partial, make_maybe of the sum of the arguments when all
\*               of them are digits, a disengaged maybe otherwise
fn_wrap(f, args) ==
    CASE f = "sumDigits"  -> Num(SumDigits(args))
      [] f = "toOptional" -> IF Predicate("isDigit", args)
                             THEN std_optional(<<tuple_of(args)>>)
                             ELSE std_optional(<<>>)
      [] f = "mkTuple"    -> Tuple(args)
      [] f = "tryDigits"  -> IF Predicate("isDigit", args)
                             THEN make_maybe(Num(SumDigits(args)))
                             ELSE maybe(<<>>)

\* A filter_impl that passes the values the predicate rejects.
filter_impl_negated(p, args) ==
    IF ~Predicate(p, args) THEN make_maybe(tuple_of(args)) ELSE maybe(<<>>)

\* detail::filter_impl::operator()
filter_impl(p, args) ==
    IF Predicate(p, args) THEN make_maybe(tuple_of(args)) ELSE maybe(<<>>)

\* A select_impl that returns the selected components in reverse order.
select_impl_reversed(idx, args) ==
    tuple_of([k \in 1..Len(idx) |-> args[idx[Len(idx) + 1 - k] + 1]])

\* detail::select_impl::operator(); Indicies count from 0.
select_impl(idx, args) == tuple_of([k \in 1..Len(idx) |-> args[idx[k] + 1]])

\* std::apply(Mapper(), args)
apply(m, args) ==
    CASE m.m = "filter" -> filter_impl(m.f, args)
      [] m.m = "select" -> select_impl(m.idx, args)
      [] m.m = "fn"     -> fn_wrap(m.f, args)

(***************************************************************************)
(* Combinators, as the types of combinator_types.                          *)
(***************************************************************************)
Cmb(c, ps, m) == [c |-> c, ps |-> ps, m |-> m, ty |-> ""]

succ == Cmb("succ", <<>>, NoMapper)
\* fail<T>: T is "tok" or "unit" (std::tuple<>)
fail(T) == [c |-> "fail", ps |-> <<>>, m |-> NoMapper, ty |-> T]
one == Cmb("one", <<>>, NoMapper)
opt(P) == Cmb("opt", <<P>>, NoMapper)
seq(ps) == Cmb("seq", ps, NoMapper)
alt(ps) == Cmb("alt", ps, NoMapper)
rep(P) == Cmb("rep", <<P>>, NoMapper)
rep1(P) == Cmb("rep1", <<P>>, NoMapper)
map(P, m) == Cmb("map", <<P>>, m)
Idle == Cmb("none", <<>>, NoMapper)

\* The record of Combinator()(it), a call a combinator makes.
Call(P, i) == [p |-> P, at |-> i]
Ret(r, cs) == [res |-> r, calls |-> cs]

\* *it: the token a dereference yields.
Deref(i) ==
    IF i < Len(tokens) THEN tokens[i + 1] ELSE beyond[i - Len(tokens) + 1]

\* Whether *it can be evaluated at all.
Readable(i) == i < Len(tokens) + Len(beyond)

\* cmb_succ_fn_aux::cmb_succ_fn
cmb_succ_fn(i) == make_result(Unit, i)

\* cmb_fail_helper<T>::cmb_fail_fn1
cmb_fail_fn1(i) == Failure

\* A cmb_one_fn that returns the iterator it was given.
cmb_one_fn_stay(i) == IF Readable(i) THEN make_result(Tok(Deref(i)), i) ELSE Crash

\* cmb_one_fn_aux::cmb_one_fn
cmb_one_fn(i) == IF Readable(i) THEN make_result(Tok(Deref(i)), i + 1) ELSE Crash

RECURSIVE cmb_wrap(_, _)
RECURSIVE cmb_seq_fn(_, _)
RECURSIVE cmb_alt_fn(_, _)
RECURSIVE RepLoop(_, _, _, _)

\* A cmb_opt_fn that returns the incoming iterator also when P succeeded.
cmb_opt_fn_keeps_it(P, i) ==
    LET r == cmb_wrap(P, i).res
    IN  Ret(IF Abnormal(r) THEN r
            ELSE IF Succeeded(r)
                 THEN make_result(std_optional(<<r.first>>), i)
                 ELSE make_result(std_optional(<<>>), i),
            <<Call(P, i)>>)

\* cmb_opt_fn_aux<Combinator>::cmb_opt_fn
cmb_opt_fn(P, i) ==
    LET r == cmb_wrap(P, i).res
    IN  Ret(IF Abnormal(r) THEN r
            ELSE IF Succeeded(r)
                 THEN make_result(std_optional(<<r.first>>), r.second)
                 ELSE make_result(std_optional(<<>>), i),
            <<Call(P, i)>>)

\* A cmb_seq_fn that applies Rest to the incoming iterator, not first->second.
cmb_seq_fn_same_it(ps, i) ==
    LET first == cmb_wrap(ps[1], i).res
    IN  IF Len(ps) = 1 THEN Ret(first, <<Call(ps[1], i)>>)
        ELSE IF Abnormal(first) THEN Ret(first, <<Call(ps[1], i)>>)
        ELSE IF Succeeded(first)
             THEN LET rest == cmb_seq_fn(Tail(ps), i)
                  IN  Ret(IF Abnormal(rest.res) THEN rest.res
                          ELSE IF Succeeded(rest.res)
                               THEN make_result(concat(first.first, rest.res.first),
                                                rest.res.second)
                               ELSE cmb_fail_fn1(i),
                          <<Call(ps[1], i)>> \o rest.calls)
             ELSE Ret(cmb_fail_fn1(i), <<Call(ps[1], i)>>)

\* A cmb_seq_fn that applies the rest of the sequence whatever the first did.
cmb_seq_fn_eager(ps, i) ==
    LET first == cmb_wrap(ps[1], i).res
    IN  IF Len(ps) = 1 THEN Ret(first, <<Call(ps[1], i)>>)
        ELSE IF Abnormal(first) THEN Ret(first, <<Call(ps[1], i)>>)
        ELSE LET rest == cmb_seq_fn(Tail(ps), IF Succeeded(first) THEN first.second ELSE i)
             IN  Ret(IF Abnormal(rest.res) THEN rest.res
                     ELSE IF Succeeded(first) /\ Succeeded(rest.res)
                          THEN make_result(concat(first.first, rest.res.first),
                                           rest.res.second)
                          ELSE cmb_fail_fn1(i),
                     <<Call(ps[1], i)>> \o rest.calls)

\* cmb_seq_fn_aux<First, Rest...>::cmb_seq_fn
cmb_seq_fn(ps, i) ==
    LET first == cmb_wrap(ps[1], i).res
    IN  IF Len(ps) = 1 THEN Ret(first, <<Call(ps[1], i)>>)
        ELSE IF Abnormal(first) THEN Ret(first, <<Call(ps[1], i)>>)
        ELSE IF Succeeded(first)
             THEN LET rest == cmb_seq_fn(Tail(ps), first.second)
                  IN  Ret(IF Abnormal(rest.res) THEN rest.res
                          ELSE IF Succeeded(rest.res)
                               THEN make_result(concat(first.first, rest.res.first),
                                                rest.res.second)
                               ELSE cmb_fail_fn1(i),
                          <<Call(ps[1], i)>> \o rest.calls)
             ELSE Ret(cmb_fail_fn1(i), <<Call(ps[1], i)>>)

\* A cmb_alt_fn that prefers a success of the later branches.
cmb_alt_fn_last_wins(ps, i) ==
    LET first == cmb_wrap(ps[1], i).res
    IN  IF Len(ps) = 1 THEN Ret(first, <<Call(ps[1], i)>>)
        ELSE LET rest == cmb_alt_fn(Tail(ps), i)
             IN  IF Succeeded(rest.res) \/ Abnormal(rest.res)
                 THEN Ret(rest.res, rest.calls \o <<Call(ps[1], i)>>)
                 ELSE Ret(first, rest.calls \o <<Call(ps[1], i)>>)

\* cmb_alt_fn_aux<ResultData, First, Rest...>::cmb_alt_fn
cmb_alt_fn(ps, i) ==
    LET first == cmb_wrap(ps[1], i).res
    IN  IF Len(ps) = 1 THEN Ret(first, <<Call(ps[1], i)>>)
        ELSE IF Abnormal(first) \/ Succeeded(first)
             THEN Ret(first, <<Call(ps[1], i)>>)
             ELSE LET rest == cmb_alt_fn(Tail(ps), i)
                  IN  Ret(rest.res, <<Call(ps[1], i)>> \o rest.calls)

\* A loop that fails when it has collected nothing.
RepLoop_nonempty(P, i, result, seen) ==
    LET r == cmb_wrap(P, i).res
    IN  IF Abnormal(r) THEN Ret(r, <<Call(P, i)>>)
        ELSE IF ~Succeeded(r)
             THEN Ret(IF result = <<>> THEN Failure ELSE make_result(Vector(result), i),
                      <<Call(P, i)>>)
        ELSE IF r.second \in seen \cup {i} THEN Ret(Diverge, <<Call(P, i)>>)
        ELSE LET more == RepLoop(P, r.second, Append(result, r.first), seen \cup {i})
             IN  Ret(more.res, <<Call(P, i)>> \o more.calls)

\* The while (true) loop of cmb_rep_fn.  `seen` holds the iterators the
\* loop has already been at: the loop's only state is `it`, so reaching one
\* of them again means the loop never ends.
RepLoop(P, i, result, seen) ==
    LET r == cmb_wrap(P, i).res
    IN  IF Abnormal(r) THEN Ret(r, <<Call(P, i)>>)
        ELSE IF ~Succeeded(r) THEN Ret(make_result(Vector(result), i), <<Call(P, i)>>)
        ELSE IF r.second \in seen \cup {i} THEN Ret(Diverge, <<Call(P, i)>>)
        ELSE LET more == RepLoop(P, r.second, Append(result, r.first), seen \cup {i})
             IN  Ret(more.res, <<Call(P, i)>> \o more.calls)

\* cmb_rep_fn_aux<Collection, Combinator>::cmb_rep_fn
cmb_rep_fn(P, i) == RepLoop(P, i, <<>>, {})

\* A cmb_rep1_fn without the check for the empty collection.
cmb_rep1_fn_unchecked(P, i) == cmb_rep_fn(P, i)

\* cmb_rep1_fn_aux<Collection, Combinator>::cmb_rep1_fn
cmb_rep1_fn(P, i) ==
    LET r == cmb_rep_fn(P, i)
    IN  Ret(IF Abnormal(r.res) THEN r.res
            ELSE IF r.res.first.e = <<>> THEN Failure
            ELSE r.res,
            r.calls)

\* A cmb_map_fn without the branch for transformations that can fail.
cmb_map_fn_total_only(P, m, i) ==
    LET r == cmb_wrap(P, i).res
        transformed == apply(m, as_tuple(r.first).e)
    IN  Ret(IF Abnormal(r) THEN r
            ELSE IF ~Succeeded(r) THEN cmb_fail_fn1(i)
            ELSE make_result(unwrap_tuple(IF transformed.a = 1 /\ is_maybe(transformed)
                                          THEN transformed.e[1] ELSE transformed),
                             r.second),
            <<Call(P, i)>>)

\* cmb_map_fn_aux<Combinator, Mapper>::cmb_map_fn
cmb_map_fn(P, m, i) ==
    LET r == cmb_wrap(P, i).res
        transformed == apply(m, as_tuple(r.first).e)
    IN  Ret(IF Abnormal(r) THEN r
            ELSE IF ~Succeeded(r) THEN cmb_fail_fn1(i)
            ELSE IF is_maybe(transformed)
                 THEN IF transformed.a = 1
                      THEN make_result(unwrap_tuple(transformed.e[1]), r.second)
                      ELSE cmb_fail_fn1(i)
                 ELSE make_result(unwrap_tuple(transformed), r.second),
            <<Call(P, i)>>)

\* detail::cmb_wrap<TokenIterator, Callable>::operator()
cmb_wrap(P, i) ==
    CASE P.c = "succ" -> Ret(cmb_succ_fn(i), <<>>)
      [] P.c = "fail" -> Ret(cmb_fail_fn1(i), <<>>)
      [] P.c = "one"  -> Ret(cmb_one_fn(i), <<>>)
      [] P.c = "opt"  -> cmb_opt_fn(P.ps[1], i)
      [] P.c = "seq"  -> cmb_seq_fn(P.ps, i)
      [] P.c = "alt"  -> cmb_alt_fn(P.ps, i)
      [] P.c = "rep"  -> cmb_rep_fn(P.ps[1], i)
      [] P.c = "rep1" -> cmb_rep1_fn(P.ps[1], i)
      [] P.c = "map"  -> cmb_map_fn(P.ps[1], P.m, i)

(***************************************************************************)
(* Static types.  What the compiler accepts is decided by the data_type    *)
(* of each combinator; the model only builds combinators that compile.     *)
(***************************************************************************)
Ty(t, es) == [t |-> t, e |-> es]
TyTok == Ty("tok", <<>>)
TyInt == Ty("int", <<>>)
TyError == Ty("error", <<>>)

\* The component types std::apply spreads: as_tuple at the type level.
TyComponents(T) == IF T.t = "tuple" THEN T.e ELSE <<T>>

RECURSIVE TyUnwrap(_)
TyUnwrap(T) == IF T.t = "tuple" /\ Len(T.e) = 1 THEN TyUnwrap(T.e[1]) ELSE T

TyTupleOf(es) == IF Len(es) = 1 THEN es[1] ELSE Ty("tuple", es)

\* transform_result of cmb_map_fn: the type Mapper returns for arguments
\* of the types `comps`, TyError when the call does not compile.
transform_result(m, comps) ==
    LET allTok == \A k \in 1..Len(comps) : comps[k] = TyTok
    IN  CASE m.m = "filter" -> IF allTok THEN Ty("maybe", <<TyTupleOf(comps)>>) ELSE TyError
          [] m.m = "select" -> IF \A k \in 1..Len(m.idx) : m.idx[k] < Len(comps)
                               THEN TyTupleOf([k \in 1..Len(m.idx) |-> comps[m.idx[k] + 1]])
                               ELSE TyError
          [] m.f = "sumDigits"  -> IF allTok THEN TyInt ELSE TyError
          [] m.f = "toOptional" -> IF allTok THEN Ty("optional", <<TyTupleOf(comps)>>) ELSE TyError
          [] m.f = "mkTuple"    -> Ty("tuple", comps)
          [] m.f = "tryDigits"  -> IF allTok THEN Ty("maybe", <<TyInt>>) ELSE TyError

\* cmb_wrap<TokenIterator, Callable>::data_type
RECURSIVE data_type(_)
data_type(P) ==
    CASE P.c = "succ" -> Ty("tuple", <<>>)
      [] P.c = "fail" -> IF P.ty = "tok" THEN TyTok ELSE Ty("tuple", <<>>)
      [] P.c = "one"  -> TyTok
      [] P.c = "opt"  -> Ty("optional", <<data_type(P.ps[1])>>)
      [] P.c = "seq"  -> IF Len(P.ps) = 1 THEN data_type(P.ps[1])
                         ELSE TyUnwrap(Ty("tuple",
                                  TyComponents(data_type(P.ps[1]))
                                  \o TyComponents(data_type(seq(Tail(P.ps))))))
      [] P.c = "alt"  -> data_type(P.ps[1])
      [] P.c \in {"rep", "rep1"} -> Ty("vector", <<data_type(P.ps[1])>>)
      [] P.c = "map"  ->
            LET T == transform_result(P.m, TyComponents(data_type(P.ps[1])))
            IN  IF T.t = "maybe" THEN TyUnwrap(T.e[1]) ELSE TyUnwrap(T)

\* Whether the combinator type compiles: the transformation is invocable
\* with the spread components, and the branches of an alternative return
\* one type.
RECURSIVE Compiles(_)
Compiles(P) ==
    /\ \A k \in 1..Len(P.ps) : Compiles(P.ps[k])
    /\ P.c = "alt" => \A k \in 1..Len(P.ps) : data_type(P.ps[k]) = data_type(P.ps[1])
    /\ P.c = "map" =>
          transform_result(P.m, TyComponents(data_type(P.ps[1]))) # TyError

(***************************************************************************)
(* The grammars the model applies.                                         *)
(***************************************************************************)
digit == map(one, Filter("isDigit"))
operator == map(one, Filter("isOp"))
second == map(seq(<<one, one>>), Select(<<1>>))

Parsers ==
    {succ, fail("tok"), one, digit, operator, second,
     opt(digit), seq(<<one, one>>), rep(digit)}

\* The members of a sequence or an alternative.
Members == {succ, fail("tok"), one, digit, second, opt(digit), seq(<<one, one>>)}

\* A parser that never returns, and the lists of members it ends.
forever == rep(succ)
Lists ==
    (SeqsUpTo(Members, MaxSeq) \ {<<>>}) \cup {<<P, forever>> : P \in Members}

Predicates == {"isDigit", "isOp"}
TotalMappers ==
    {Fn("sumDigits"), Fn("toOptional"), Fn("mkTuple"),
     Select(<<0>>), Select(<<1>>), Select(<<0, 1>>), Select(<<1, 0>>), Select(<<0, 0>>)}
PartialMappers == {Filter(p) : p \in Predicates} \cup {Fn("tryDigits")}
Mappers == PartialMappers \cup TotalMappers

\* sequence(map(P, f), map(Q, g)) for total f and g
Mapped ==
    {map(P, f) : P \in {one, seq(<<one, one>>)},
                 f \in {Fn("sumDigits"), Fn("toOptional"), Select(<<0, 0>>)}}
MappedPairs == {seq(<<A, B>>) : A \in Mapped, B \in Mapped}

\* The pairs (Combinator, Mapper) that map is instantiated with.
Mappings ==
    (Parsers \X Mappers) \cup (MappedPairs \X {Select(<<0, 1>>), Select(<<1, 0>>)})

\* The streams parsed: all of up to MaxLen tokens over a digit and the
\* operator, and the two above.
Streams == SeqsUpTo(Token, MaxLen) \cup {Scenario, TwoDigits}
Cursors == 0..Len(tokens)

\* The user's fold functions: a difference, and one that writes its left
\* argument behind the digits of its right one.  Neither is commutative or
\* associative.
Folders == {"minus", "behind"}
Folder(op, a, b) == Num(IF op = "minus" THEN a.a - b.a ELSE 10 * b.a + a.a)

\* The values folded.
Elems == {Num(n) : n \in 0..2}

\* No fold is running.
IdleFold ==
    [fn |-> "none", op |-> "none", args |-> <<>>, st |-> "idle",
     rest |-> <<>>, first |-> Unit, at |-> 0, visited |-> <<>>]

\* foldl_impl<Folder>::operator()(first, rest) entered: it = cbegin(rest).
foldl_impl(op, args) ==
    [fn |-> "foldl", op |-> op, args |-> args, st |-> "running",
     rest |-> args[2].e,
     first |-> args[1], at |-> 1, visited |-> <<>>]

\* foldr_impl<Folder>::operator()(rest, first) entered: it = crbegin(rest).
foldr_impl(op, args) ==
    [fn |-> "foldr", op |-> op, args |-> args, st |-> "running",
     rest |-> args[1].e,
     first |-> args[2], at |-> Len(args[1].e), visited |-> <<>>]

\* One turn of the loop of foldl_impl, or its return at cend(rest).
foldl_turn(f) ==
    IF f.at = Len(f.rest) + 1 THEN [f EXCEPT !.st = "returned"]
    ELSE [f EXCEPT !.first = Folder(f.op, f.first, f.rest[f.at]),
                   !.visited = Append(f.visited, f.at),
                   !.at = f.at + 1]

\* A right fold that hands the accumulator to the fold function first.
foldr_turn_swapped(f) ==
    IF f.at = 0 THEN [f EXCEPT !.st = "returned"]
    ELSE [f EXCEPT !.first = Folder(f.op, f.first, f.rest[f.at]),
                   !.visited = Append(f.visited, f.at),
                   !.at = f.at - 1]

\* One turn of the loop of foldr_impl, or its return at crend(rest).
foldr_turn(f) ==
    IF f.at = 0 THEN [f EXCEPT !.st = "returned"]
    ELSE [f EXCEPT !.first = Folder(f.op, f.rest[f.at], f.first),
                   !.visited = Append(f.visited, f.at),
                   !.at = f.at - 1]

\* How many applications and collected values of one repetition are kept:
\* more than any repetition that ends makes.
MaxKept == MaxLen + MaxOver + 2

\* No repetition is running.
IdleLoop ==
    [st |-> "idle", rep1 |-> FALSE, p |-> Idle, start |-> 0, at |-> 0,
     result |-> <<>>, n |-> 0, ret |-> NoResult]

\* cmb_rep_fn / cmb_rep1_fn entered at iterator i: `result` is empty.
EnterLoop(P, i, isRep1) ==
    [st |-> "running", rep1 |-> isRep1, p |-> P, start |-> i, at |-> i,
     result |-> <<>>, n |-> 0, ret |-> NoResult]

\* One more application counted, up to MaxKept.
Counted(l) == IF l.n < MaxKept THEN l.n + 1 ELSE l.n

\* A loop that stops when an application did not move the iterator.
LoopStep_guarded(l) ==
    LET r == cmb_wrap(l.p, l.at).res
    IN  CASE r.kind = "crash"   -> [l EXCEPT !.st = "aborted", !.n = Counted(l)]
          [] r.kind = "diverge" -> [l EXCEPT !.st = "hung", !.n = Counted(l)]
          [] r.kind = "failure" \/ (r.kind = "success" /\ r.second = l.at) ->
                [l EXCEPT !.st = "returned", !.n = Counted(l),
                          !.ret = IF l.rep1 /\ l.result = <<>> THEN Failure
                                  ELSE make_result(Vector(l.result), l.at)]
          [] OTHER ->
                [l EXCEPT !.at = r.second, !.n = Counted(l),
                          !.result = IF Len(l.result) < MaxKept
                                     THEN Append(l.result, r.first) ELSE l.result]

\* One turn of the while (true) loop of cmb_rep_fn: apply the combinator at
\* `it`; on failure return what was collected (cmb_rep1_fn then fails on an
\* empty collection), on success collect the value and move `it`.
LoopStep(l) ==
    LET r == cmb_wrap(l.p, l.at).res
    IN  CASE r.kind = "crash"   -> [l EXCEPT !.st = "aborted", !.n = Counted(l)]
          [] r.kind = "diverge" -> [l EXCEPT !.st = "hung", !.n = Counted(l)]
          [] r.kind = "failure" ->
                [l EXCEPT !.st = "returned", !.n = Counted(l),
                          !.ret = IF l.rep1 /\ l.result = <<>> THEN Failure
                                  ELSE make_result(Vector(l.result), l.at)]
          [] OTHER ->
                [l EXCEPT !.at = r.second, !.n = Counted(l),
                          !.result = IF Len(l.result) < MaxKept
                                     THEN Append(l.result, r.first) ELSE l.result]

(***************************************************************************)
(* The state machine: a caller applies a combinator to an iterator of the  *)
(* stream and gets its result; results are transient, the caller drops     *)
(* them before the next application.                                       *)
(***************************************************************************)
Init ==
    /\ tokens \in Streams
    /\ beyond \in SeqsUpTo(Token, MaxOver)
    /\ pc = "ready"
    /\ cmb = Idle
    /\ it = 0
    /\ res = NoResult
    /\ calls = <<>>
    /\ loop = IdleLoop
    /\ fold = IdleFold

\* What the caller sees of an application P()(i) that ran as `r`.
Applied(P, i, r) ==
    /\ Compiles(P)
    /\ cmb' = P
    /\ it' = i
    /\ res' = r.res
    /\ calls' = r.calls
    /\ pc' = CASE r.res.kind = "crash" -> "aborted"
               [] r.res.kind = "diverge" -> "looping"
               [] OTHER -> "returned"
    /\ UNCHANGED <<tokens, beyond, loop, fold>>

ApplySucc ==
    /\ pc = "ready"
    /\ \E i \in Cursors : Applied(succ, i, Ret(cmb_succ_fn(i), <<>>))

ApplyFail ==
    /\ pc = "ready"
    /\ \E i \in Cursors, T \in {"tok", "unit"} :
            Applied(fail(T), i, Ret(cmb_fail_fn1(i), <<>>))

ApplyOne ==
    /\ pc = "ready"
    /\ \E i \in Cursors : Applied(one, i, Ret(cmb_one_fn(i), <<>>))

ApplyOpt ==
    /\ pc = "ready"
    /\ \E i \in Cursors, P \in Parsers : Applied(opt(P), i, cmb_opt_fn(P, i))

ApplySeq ==
    /\ pc = "ready"
    /\ \E i \in Cursors, ps \in Lists :
           Applied(seq(ps), i, cmb_seq_fn(ps, i))

ApplyAlt ==
    /\ pc = "ready"
    /\ \E i \in Cursors, ps \in Lists :
           Applied(alt(ps), i, cmb_alt_fn(ps, i))

ApplyRep ==
    /\ pc = "ready"
    /\ \E i \in Cursors, P \in Parsers : Applied(rep(P), i, cmb_rep_fn(P, i))

ApplyRep1 ==
    /\ pc = "ready"
    /\ \E i \in Cursors, P \in Parsers : Applied(rep1(P), i, cmb_rep1_fn(P, i))

ApplyMap ==
    /\ pc = "ready"
    /\ \E i \in Cursors, pm \in Mappings :
           Applied(map(pm[1], pm[2]), i, cmb_map_fn(pm[1], pm[2], i))

\* The caller is done with the result.
Return ==
    /\ pc = "returned"
    /\ pc' = "ready"
    /\ cmb' = Idle
    /\ it' = 0
    /\ res' = NoResult
    /\ calls' = <<>>
    /\ UNCHANGED <<tokens, beyond, loop, fold>>

Next ==
    \/ ApplySucc \/ ApplyFail \/ ApplyOne \/ ApplyOpt \/ ApplySeq
    \/ ApplyAlt \/ ApplyRep \/ ApplyRep1 \/ ApplyMap \/ Return

Spec == Init /\ [][Next]_vars

(***************************************************************************)
(* The repetitions turn by turn: cmb_rep_fn and cmb_rep1_fn are entered,   *)
(* the loop runs one application at a time, and the caller takes the       *)
(* result once the loop has returned.  Nothing but the loop itself decides *)
(* whether its next turn is taken.                                         *)
(***************************************************************************)
StartRep ==
    /\ loop.st = "idle"
    /\ \E i \in Cursors, P \in Parsers :
           /\ Compiles(rep(P))
           /\ loop' = EnterLoop(P, i, FALSE)
    /\ UNCHANGED <<tokens, beyond, pc, cmb, it, res, calls, fold>>

StartRep1 ==
    /\ loop.st = "idle"
    /\ \E i \in Cursors, P \in Parsers :
           /\ Compiles(rep1(P))
           /\ loop' = EnterLoop(P, i, TRUE)
    /\ UNCHANGED <<tokens, beyond, pc, cmb, it, res, calls, fold>>

LoopApply ==
    /\ loop.st = "running"
    /\ loop' = LoopStep(loop)
    /\ UNCHANGED <<tokens, beyond, pc, cmb, it, res, calls, fold>>

LoopReturn ==
    /\ loop.st = "returned"
    /\ loop' = IdleLoop
    /\ UNCHANGED <<tokens, beyond, pc, cmb, it, res, calls, fold>>

NextLoop == StartRep \/ StartRep1 \/ LoopApply \/ LoopReturn

LoopSpec == Init /\ [][NextLoop]_vars /\ WF_vars(LoopApply)

(***************************************************************************)
(* The compile-time variant, combinator_comptime: a combinator is a        *)
(* template over the remaining input, a Collection of token types, and     *)
(* its instantiation is a result_type<Succ, Res, Rem>.                     *)
(***************************************************************************)
Void == [t |-> "void", a |-> 0, e |-> <<>>]
success_result(Res, Rem) == [kind |-> "success", result |-> Res, remaining |-> Rem]
fail_result == [kind |-> "failure", result |-> Void, remaining |-> <<>>]
\* An instantiation that never completes: the program is ill-formed.
IllFormed == [kind |-> "illformed", result |-> Void, remaining |-> <<>>]

is_collection(T) == T.t = "tuple"

RECURSIVE unwrap_single(_)
unwrap_single(T) ==
    IF is_collection(T) /\ Len(T.e) = 1 THEN unwrap_single(T.e[1]) ELSE T

concat_result(U, V) ==
    Tuple((IF is_collection(U) THEN U.e ELSE <<U>>)
          \o (IF is_collection(V) THEN V.e ELSE <<V>>))

concat_result_t(U, V) == unwrap_single(concat_result(U, V))

\* one_impl<Collection<>> and one_impl<Collection<First, Rest...>>
one_impl(In) ==
    IF In = <<>> THEN fail_result
    ELSE success_result(Tok(Head(In)), Tail(In))

\* mbind2<P1, P2>::type as a combinator
mbind2(P1, P2) == Cmb("mbind2", <<P1, P2>>, NoMapper)

RECURSIVE comptime(_, _), comptime_seq(_, _), comptime_alt(_, _), comptime_rep_call(_, _, _, _, _, _)

\* mbind2<P1, P2>::type<In>: call1 on P1<In>, then call2 on P2<Rem>
comptime_mbind2(P1, P2, In) ==
    LET r1 == comptime(P1, In)
    IN  IF r1.kind # "success" THEN r1
        ELSE LET r2 == comptime(P2, r1.remaining)
             IN  IF r2.kind # "success" THEN r2
                 ELSE success_result(concat_result_t(r1.result, r2.result),
                                     r2.remaining)

\* opt<P>::cmb<In>
comptime_opt(P, In) ==
    LET r == comptime(P, In)
    IN  CASE r.kind = "illformed" -> r
          [] r.kind = "failure" -> success_result(Tuple(<<>>), In)
          [] OTHER -> success_result(r.result, r.remaining)

\* seq<P1, P2, PRest...> : seq<mbind2<P1, P2>::type, PRest...>, and seq<P1>
comptime_seq(ps, In) ==
    IF Len(ps) = 1 THEN comptime(ps[1], In)
    ELSE comptime_seq(<<mbind2(ps[1], ps[2])>> \o SubSeq(ps, 3, Len(ps)), In)

\* alt<PFirst, PRest...>::cmb<In>, and alt<P>
comptime_alt(ps, In) ==
    IF Len(ps) = 1 THEN comptime(ps[1], In)
    ELSE LET r == comptime(ps[1], In)
         IN  CASE r.kind = "illformed" -> r
               [] r.kind = "failure" -> comptime_alt(Tail(ps), In)
               [] OTHER -> success_result(r.result, r.remaining)

\* rep<P>::call<Succ, OldRes, OldRem, NewRes, NewRem>.  A P that succeeds
\* with the remaining input it was given makes call<true, ...> derive from
\* itself or from ever new instantiations: neither completes.
comptime_rep_call(P, Success, OldRes, OldRem, NewRes, NewRem) ==
    IF ~Success THEN success_result(unwrap_single(OldRes), OldRem)
    ELSE LET r == comptime(P, NewRem)
         IN  IF r.kind = "illformed" THEN r
             ELSE IF r.kind = "success" /\ r.remaining = NewRem THEN IllFormed
             ELSE comptime_rep_call(P, r.kind = "success", NewRes, NewRem,
                                    concat_result_t(NewRes, r.result), r.remaining)

\* rep<P>::cmb<In>
comptime_rep(P, In) == comptime_rep_call(P, TRUE, Tuple(<<>>), In, Tuple(<<>>), In)

\* rep1<P>::cmb<In> : seq<P, rep<P>::cmb>::cmb<In>
comptime_rep1(P, In) == comptime_seq(<<P, rep(P)>>, In)

\* P<In> for the combinators of combinator_comptime
comptime(P, In) ==
    CASE P.c = "succ" -> success_result(Tuple(<<>>), In)
      [] P.c = "fail" -> fail_result
      [] P.c = "one" -> one_impl(In)
      [] P.c = "opt" -> comptime_opt(P.ps[1], In)
      [] P.c = "mbind2" -> comptime_mbind2(P.ps[1], P.ps[2], In)
      [] P.c = "seq" -> comptime_seq(P.ps, In)
      [] P.c = "alt" -> comptime_alt(P.ps, In)
      [] P.c = "rep" -> comptime_rep(P.ps[1], In)
      [] P.c = "rep1" -> comptime_rep1(P.ps[1], In)

(***************************************************************************)
(* Notions the properties are stated with.                                 *)
(***************************************************************************)
\* The result of applying P at iterator i.
At(P, i) == cmb_wrap(P, i).res

\* The flattened components of a value: those of a composite, or the bare
\* value as its only component.
Components(v) == IF v.t = "tuple" THEN v.e ELSE <<v>>

\* A single-component composite is the same value as its component.
RECURSIVE Bare(_)
Bare(v) == IF v.t = "tuple" /\ Len(v.e) = 1 THEN Bare(v.e[1]) ELSE v

\* The largest iterator a parse can return.
LastCursor == Len(tokens) + Len(beyond)

\* The iterator handed to ps[k + 1] when ps[1..k] succeed one after the
\* other starting at c, and -1 when one of them does not succeed.
RECURSIVE CursorAfter(_, _, _)
CursorAfter(ps, c, k) ==
    IF k = 0 THEN c
    ELSE LET prev == CursorAfter(ps, c, k - 1)
         IN  IF prev = -1 THEN -1
             ELSE IF Succeeded(At(ps[k], prev)) THEN At(ps[k], prev).second ELSE -1

\* k applications of P one after the other starting at c.
Repeated(P, k) == [j \in 1..k |-> P]

\* P consumes at least one token whenever it succeeds.
Progress(P) ==
    \A c \in 0..LastCursor : Succeeded(At(P, c)) => At(P, c).second > c

(***************************************************************************)
(* C1: `one` applied to an iterator at the end of the stream returns       *)
(* Failure: it reads no token at or past the end and returns no Success    *)
(* whose iterator lies beyond the end.                                     *)
(***************************************************************************)
C1_OneAtEndFails ==
    (cmb = one /\ it = Len(tokens)) => res = Failure

(***************************************************************************)
(* C10: `one` applied to an iterator at index i before the end succeeds    *)
(* with the token at index i and the iterator at index i + 1, and leaves   *)
(* the stream as it was.                                                   *)
(***************************************************************************)
C10_OneYieldsCurrentToken ==
    [][(pc = "ready" /\ cmb' = one /\ it' < Len(tokens))
        => /\ res' = [kind |-> "success", first |-> Tok(tokens[it' + 1]),
                      second |-> it' + 1]
           /\ tokens' = tokens]_vars

C10_Witness ==
    /\ cmb = one /\ tokens = Scenario /\ it = 0
    /\ res = [kind |-> "success", first |-> Tok(1), second |-> 1]

(***************************************************************************)
(* C2: sequence(P1..Pn) at c succeeds iff P1 succeeds at c and each        *)
(* P(k+1) succeeds at the iterator returned by Pk; the iterator it returns *)
(* is the one returned by Pn, so it consumes the sum of what each Pi       *)
(* consumes; sequence(P1) returns exactly P1's result.                     *)
(***************************************************************************)
RECURSIVE SumConsumed(_, _, _)
SumConsumed(ps, c, k) ==
    IF k = 0 THEN 0
    ELSE SumConsumed(ps, c, k - 1)
         + (At(ps[k], CursorAfter(ps, c, k - 1)).second - CursorAfter(ps, c, k - 1))

C2_SequenceThreadsCursor ==
    cmb.c = "seq" =>
        LET n == Len(cmb.ps)
        IN  /\ Succeeded(res) <=> CursorAfter(cmb.ps, it, n) # -1
            /\ Succeeded(res) =>
                  /\ res.second = CursorAfter(cmb.ps, it, n)
                  /\ res.second - it = SumConsumed(cmb.ps, it, n)
            /\ n = 1 => res = At(cmb.ps[1], it)

C2_Witness ==
    /\ cmb = seq(<<one, second>>) /\ tokens = Scenario /\ it = 0
    /\ Succeeded(res) /\ res.second = 3

(***************************************************************************)
(* C3: alternative(P1..Pn) at c applies every branch it tries to the       *)
(* incoming iterator c, returns exactly the result of the lowest-index Pi  *)
(* that succeeds at c, and fails iff every Pi fails at c.                  *)
(***************************************************************************)
C3_AlternativeFirstSuccess ==
    cmb.c = "alt" =>
        LET n == Len(cmb.ps)
            R(k) == At(cmb.ps[k], it)
        IN  /\ \A k \in 1..Len(calls) : calls[k] = [p |-> cmb.ps[k], at |-> it]
            /\ \A k \in 1..n :
                  (Succeeded(R(k)) /\ \A j \in 1..(k - 1) : Failed(R(j))) => res = R(k)
            /\ Succeeded(res) =>
                  \E k \in 1..n : /\ Succeeded(R(k)) /\ res = R(k)
                                   /\ \A j \in 1..(k - 1) : ~Succeeded(R(j))
            /\ Failed(res) <=> \A k \in 1..n : Failed(R(k))

\* The first branch rejects the token, the second one takes it.
C3_Witness ==
    /\ cmb = alt(<<digit, second>>) /\ tokens = Scenario /\ it = 1
    /\ res = [kind |-> "success", first |-> Tok(2), second |-> 3]
    /\ Len(calls) = 2

(***************************************************************************)
(* C4: optional(P) at c never returns Failure: when P succeeds at c the    *)
(* result is Success(present(P's value), P's iterator); when P fails at c  *)
(* it is Success(absent, c).                                               *)
(***************************************************************************)
C4_OptionalNeverFails ==
    cmb.c = "opt" =>
        LET r == At(cmb.ps[1], it)
        IN  /\ ~Failed(res)
            /\ Succeeded(r) =>
                  res = [kind |-> "success",
                         first |-> [t |-> "optional", a |-> 1, e |-> <<r.first>>],
                         second |-> r.second]
            /\ Failed(r) =>
                  res = [kind |-> "success",
                         first |-> [t |-> "optional", a |-> 0, e |-> <<>>],
                         second |-> it]

\* P fails in the middle of the stream: absent, and the iterator stays.
C4_Witness ==
    /\ cmb = opt(digit) /\ tokens = Scenario /\ it = 1
    /\ res.kind = "success" /\ res.first.a = 0 /\ res.second = 1

(***************************************************************************)
(* C5: for P that consumes at least one token on success, repeat0(P) at c  *)
(* never fails; its sequence holds, in order, the values of the maximal    *)
(* run of consecutive successes of P from c, and its iterator is that of   *)
(* the last success, or c with the empty sequence when P fails at c.       *)
(***************************************************************************)
\* The k-th value of the run of P from c.
RunValue(P, c, k) == At(P, CursorAfter(Repeated(P, k), c, k - 1)).first

\* P succeeds k times in a row from c and then fails.
RunOf(P, c, k) ==
    /\ CursorAfter(Repeated(P, k), c, k) # -1
    /\ Failed(At(P, CursorAfter(Repeated(P, k), c, k)))

RunResult(P, c, k) ==
    [kind |-> "success",
     first |-> [t |-> "vector", a |-> 0, e |-> [j \in 1..k |-> RunValue(P, c, j)]],
     second |-> CursorAfter(Repeated(P, k), c, k)]

C5_Repeat0MaximalRun ==
    (cmb.c = "rep" /\ Progress(cmb.ps[1])) =>
        LET P == cmb.ps[1]
        IN  /\ res.kind \notin {"failure", "diverge"}
            /\ \A k \in 0..LastCursor : RunOf(P, it, k) => res = RunResult(P, it, k)
            /\ Succeeded(res) => \E k \in 0..LastCursor : RunOf(P, it, k)
            /\ Failed(At(P, it)) =>
                  res = [kind |-> "success",
                         first |-> [t |-> "vector", a |-> 0, e |-> <<>>],
                         second |-> it]

\* Two successes with different values, then a failure.
C5_Witness ==
    /\ cmb = rep(digit) /\ it = 0 /\ tokens = TwoDigits
    /\ res = [kind |-> "success",
              first |-> [t |-> "vector", a |-> 0, e |-> <<Tok(1), Tok(2)>>],
              second |-> 2]

(***************************************************************************)
(* C6: for P that consumes at least one token on success, repeat1(P) at c  *)
(* fails iff P fails at c; when P succeeds at c it returns what            *)
(* repeat0(P) returns at c, a sequence of at least one value.              *)
(***************************************************************************)
C6_Repeat1AtLeastOne ==
    (cmb.c = "rep1" /\ Progress(cmb.ps[1])) =>
        LET P == cmb.ps[1]
        IN  /\ Failed(res) <=> Failed(At(P, it))
            /\ Succeeded(At(P, it)) =>
                  /\ res = At(rep(P), it)
                  /\ Succeeded(res) => Len(res.first.e) >= 1

C6_Witness ==
    /\ cmb = rep1(digit) /\ it = 0 /\ tokens = TwoDigits
    /\ Succeeded(res) /\ Len(res.first.e) = 2 /\ res.second = 2

C6_WitnessFails ==
    /\ cmb = rep1(digit) /\ it = 1 /\ tokens = Scenario /\ res = Failure

(***************************************************************************)
(* C7: map(P, f) with a total f succeeds at c iff P succeeds at c, and     *)
(* then returns f applied to the flattened components of P's value, with   *)
(* P's iterator; a disengaged std::optional returned by f is data, not a   *)
(* failure of the transformation.                                          *)
(***************************************************************************)
C7_MapTotal ==
    (cmb.c = "map" /\ cmb.m \in TotalMappers) =>
        LET r == At(cmb.ps[1], it)
        IN  /\ Succeeded(res) <=> Succeeded(r)
            /\ Succeeded(r) =>
                  /\ res.kind = "success"
                  /\ Bare(res.first) = Bare(apply(cmb.m, Components(r.first)))
                  /\ res.second = r.second

\* f returns a disengaged std::optional for the token '+'.
C7_Witness ==
    /\ cmb = map(one, Fn("toOptional")) /\ tokens = Scenario /\ it = 1
    /\ res = [kind |-> "success",
              first |-> [t |-> "optional", a |-> 0, e |-> <<>>],
              second |-> 2]

(***************************************************************************)
(* C8: map(P, filter(pred)) succeeds at c iff P succeeds at c and pred     *)
(* holds of the flattened components of P's value; then the value and the  *)
(* iterator are exactly P's; when pred does not hold the result is         *)
(* Failure.                                                                *)
(***************************************************************************)
C8_FilterPassesThrough ==
    (cmb.c = "map" /\ cmb.m.m = "filter") =>
        LET r == At(cmb.ps[1], it)
        IN  /\ Succeeded(res) <=>
                  (Succeeded(r) /\ Predicate(cmb.m.f, Components(r.first)))
            /\ Succeeded(res) => res = r
            /\ (Succeeded(r) /\ ~Predicate(cmb.m.f, Components(r.first)))
                  => res = Failure

\* Two components pass the predicate and come through unchanged.
C8_Witness ==
    /\ cmb = map(seq(<<one, one>>), Filter("isDigit"))
    /\ tokens = TwoDigits /\ it = 0
    /\ res = [kind |-> "success",
              first |-> [t |-> "tuple", a |-> 0, e |-> <<Tok(1), Tok(2)>>],
              second |-> 2]

\* P consumed two tokens and the predicate rejects them.
C8_WitnessRejected ==
    /\ cmb = map(seq(<<one, one>>), Filter("isDigit"))
    /\ tokens = Scenario /\ it = 0 /\ res = Failure

(***************************************************************************)
(* C9: where P succeeds at c and Q at P's iterator,                        *)
(* map(sequence(map(P, f), map(Q, g)), select(0, 1)) yields the pair       *)
(* (f(P's value), g(Q's value)) with Q's iterator; and select(i1..ik)      *)
(* returns the components at the declared indices in the declared order.   *)
(***************************************************************************)
\* The components select(idx) picks from the value v.
Selected(idx, v) == [k \in 1..Len(idx) |-> Components(v)[idx[k] + 1]]

C9_SelectReturnsDeclared ==
    (cmb.c = "map" /\ cmb.m.m = "select") =>
        LET r == At(cmb.ps[1], it)
        IN  Succeeded(r) =>
                /\ res.kind = "success"
                /\ Bare(res.first) = Bare([t |-> "tuple", a |-> 0,
                                           e |-> Selected(cmb.m.idx, r.first)])
                /\ res.second = r.second

\* The pair law, for the mapped pairs whose f and g satisfy `single`.
PairLaw(single(_)) ==
    (cmb.c = "map" /\ cmb.ps[1] \in MappedPairs /\ cmb.m = Select(<<0, 1>>)) =>
        LET A == cmb.ps[1].ps[1]
            B == cmb.ps[1].ps[2]
            rp == At(A.ps[1], it)
            rq == At(B.ps[1], rp.second)
            fv == apply(A.m, Components(rp.first))
            gv == apply(B.m, Components(rq.first))
        IN  (Succeeded(rp) /\ Succeeded(rq) /\ single(fv) /\ single(gv)) =>
                res = [kind |-> "success",
                       first |-> [t |-> "tuple", a |-> 0, e |-> <<fv, gv>>],
                       second |-> rq.second]

AnyValue(v) == TRUE
NotComposite(v) == v.t # "tuple"

C11_MapPartial ==
    (cmb.c = "map" /\ cmb.m \in PartialMappers) =>
        LET r == At(cmb.ps[1], it)
            outcome == apply(cmb.m, Components(r.first))
        IN  /\ Failed(res) <=> (Failed(r) \/ (Succeeded(r) /\ outcome.a = 0))
            /\ (Succeeded(r) /\ outcome.a = 1) =>
                  /\ res.kind = "success"
                  /\ Bare(res.first) = Bare(outcome.e[1])
                  /\ res.second = r.second
            /\ (Succeeded(r) /\ outcome.a = 0) => res = Failure

\* f replaces the two digits by their sum.
C11_Witness ==
    /\ cmb = map(seq(<<one, one>>), Fn("tryDigits"))
    /\ tokens = TwoDigits /\ it = 0
    /\ res = [kind |-> "success", first |-> Num(3), second |-> 2]

\* P consumed two tokens and f returns absence.
C11_WitnessAbsent ==
    /\ cmb = map(seq(<<one, one>>), Fn("tryDigits"))
    /\ tokens = Scenario /\ it = 0 /\ res = Failure

(***************************************************************************)
(* C12: when sequence(P1..Pn) succeeds its value is the flat, in-order     *)
(* concatenation of the components of each Pi's value (a bare value is one *)
(* component, the empty value of succeed none, a composite of arity m is   *)
(* m), never a nested composite; a concatenation of exactly one component  *)
(* is that bare value, and the optional of optional(P) stays one wrapped   *)
(* component.                                                              *)
(***************************************************************************)
\* The value ps[k] returns in the sequence ps applied at c.
MemberValue(ps, c, k) == At(ps[k], CursorAfter(ps, c, k - 1)).first

\* The components of the values of ps[1..k], in order.
RECURSIVE Concatenated(_, _, _)
Concatenated(ps, c, k) ==
    IF k = 0 THEN <<>>
    ELSE Concatenated(ps, c, k - 1) \o Components(MemberValue(ps, c, k))

RECURSIVE SumArity(_, _, _)
SumArity(ps, c, k) ==
    IF k = 0 THEN 0
    ELSE SumArity(ps, c, k - 1) + Len(Components(MemberValue(ps, c, k)))

C12_SequenceValueIsFlat ==
    (cmb.c = "seq" /\ Succeeded(res)) =>
        LET n == Len(cmb.ps)
            all == Concatenated(cmb.ps, it, n)
        IN  /\ Len(all) # 1 => res.first = [t |-> "tuple", a |-> 0, e |-> all]
            /\ Len(all) = 1 => res.first = all[1]
            /\ Len(all) = SumArity(cmb.ps, it, n)
            /\ \A j \in 1..Len(all) : all[j].t # "tuple"
            /\ \A k \in 1..n :
                  MemberValue(cmb.ps, it, k).t = "optional" =>
                      \E j \in 1..Len(all) : all[j] = MemberValue(cmb.ps, it, k)

\* Arity 2 and arity 1 give arity 3; the optional stays wrapped.
C12_Witness ==
    /\ cmb = seq(<<seq(<<one, one>>), opt(digit)>>)
    /\ tokens = TwoDigits /\ it = 0
    /\ res = [kind |-> "success",
              first |-> [t |-> "tuple", a |-> 0,
                         e |-> <<Tok(1), Tok(2),
                                 [t |-> "optional", a |-> 0, e |-> <<>>]>>],
              second |-> 2]

\* One component and none: the bare value.
C12_WitnessBare ==
    /\ cmb = seq(<<opt(digit), succ>>) /\ tokens = Scenario /\ it = 0
    /\ res = [kind |-> "success",
              first |-> [t |-> "optional", a |-> 1, e |-> <<Tok(1)>>],
              second |-> 1]

(***************************************************************************)
(* The folds: a fold is called with a fold function, a sequence and an     *)
(* initial value, and runs its loop one element at a time.                 *)
(***************************************************************************)
FoldCalls ==
    {foldl_impl(op, <<init, Vector(xs)>>) :
        op \in Folders, init \in Elems, xs \in SeqsUpTo(Elems, MaxLen)}
    \cup
    {foldr_impl(op, <<Vector(xs), init>>) :
        op \in Folders, init \in Elems, xs \in SeqsUpTo(Elems, MaxLen)}

FoldInit ==
    /\ tokens = <<>>
    /\ beyond = <<>>
    /\ pc = "ready"
    /\ cmb = Idle
    /\ it = 0
    /\ res = NoResult
    /\ calls = <<>>
    /\ loop = IdleLoop
    /\ fold \in FoldCalls

FoldlTurn ==
    /\ fold.fn = "foldl" /\ fold.st = "running"
    /\ fold' = foldl_turn(fold)
    /\ UNCHANGED <<tokens, beyond, pc, cmb, it, res, calls, loop>>

FoldrTurn ==
    /\ fold.fn = "foldr" /\ fold.st = "running"
    /\ fold' = foldr_turn(fold)
    /\ UNCHANGED <<tokens, beyond, pc, cmb, it, res, calls, loop>>

NextFold == FoldlTurn \/ FoldrTurn

FoldSpec == FoldInit /\ [][NextFold]_vars

(***************************************************************************)
(* C13: a repetition is not guarded against a sub-parser that succeeds     *)
(* without moving the iterator: when repeat0(P) or repeat1(P) is about to  *)
(* apply P at an iterator where P succeeds and returns that same iterator, *)
(* the repetition never returns; every further turn of the loop applies P  *)
(* at that iterator again, and the next turn can always be taken.          *)
(***************************************************************************)
\* The running loop is at an iterator where its sub-parser succeeds in place.
Stuck ==
    /\ loop.st = "running"
    /\ Succeeded(At(loop.p, loop.at))
    /\ At(loop.p, loop.at).second = loop.at

C13_RepetitionNeverReturns ==
    [][Stuck => /\ Stuck'
                /\ loop'.p = loop.p /\ loop'.at = loop.at
                /\ loop'.rep1 = loop.rep1 /\ loop'.ret = NoResult
                /\ loop'.n >= loop.n
                /\ ENABLED LoopApply]_vars

\* repeat0(optional(digit)) at the operator: the second application there.
C13_Witness ==
    /\ loop.st = "running" /\ ~loop.rep1 /\ loop.p = opt(digit)
    /\ tokens = Scenario /\ loop.start = 0 /\ loop.at = 1 /\ loop.n = 3

\* repeat1(succeed), applied over and over where it started.
C13_WitnessSucceed ==
    /\ loop.st = "running" /\ loop.rep1 /\ loop.p = succ
    /\ loop.at = loop.start /\ loop.n = MaxKept

\* The turn-by-turn loop returns what cmb_rep_fn and cmb_rep1_fn return, and
\* runs forever exactly when they do.
LoopAgrees ==
    LET whole == IF loop.rep1 THEN cmb_rep1_fn(loop.p, loop.start).res
                 ELSE cmb_rep_fn(loop.p, loop.start).res
    IN  /\ loop.st = "returned" => loop.ret = whole
        /\ loop.st = "aborted" => whole = Crash
        /\ Stuck => whole = Diverge

(***************************************************************************)
(* C14: foldr(op) called with a sequence [e1..en] first and an initial     *)
(* value second returns op(e1, op(e2, ... op(en, initial))): it visits the *)
(* elements from the back, en first, each as op's left argument with the   *)
(* accumulator as the right one; on the empty sequence it returns the      *)
(* initial value.  It always returns, and it touches no iterator.          *)
(***************************************************************************)
\* op(xs[1], op(xs[2], ... op(xs[n], init))).
RECURSIVE RightReduction(_, _, _)
RightReduction(op, xs, init) ==
    IF xs = <<>> THEN init
    ELSE Folder(op, Head(xs), RightReduction(op, Tail(xs), init))

C14_FoldrRightReduction ==
    fold.fn = "foldr" =>
        LET sequence == fold.args[1].e
            initial == fold.args[2]
            n == Len(sequence)
            k == Len(fold.visited)
        IN  /\ fold.st \in {"running", "returned"}
            /\ fold.rest = sequence
            /\ \A j \in 1..k : fold.visited[j] = n + 1 - j
            /\ fold.first =
                  RightReduction(fold.op, SubSeq(sequence, n - k + 1, n), initial)
            /\ fold.st = "returned" =>
                  /\ k = n
                  /\ fold.first = RightReduction(fold.op, sequence, initial)
                  /\ n = 0 => fold.first = initial
            /\ fold.st = "running" => ENABLED FoldrTurn
            /\ it = 0 /\ res = NoResult /\ loop = IdleLoop

\* 1 - (2 - (0 - 1)) = -2, the elements visited last to first.
C14_Witness ==
    /\ fold.fn = "foldr" /\ fold.op = "minus" /\ fold.st = "returned"
    /\ fold.args = <<Vector(<<Num(1), Num(2), Num(0)>>), Num(1)>>
    /\ fold.first = Num(0 - 2)
    /\ fold.visited = <<3, 2, 1>>

\* The empty sequence gives the initial value.
C14_WitnessEmpty ==
    /\ fold.fn = "foldr" /\ fold.st = "returned"
    /\ fold.args = <<Vector(<<>>), Num(2)>> /\ fold.first = Num(2)
    /\ fold.visited = <<>>

(***************************************************************************)
(* C15: a failure ends a sequence at once: when P1..P(k-1) succeed one     *)
(* after the other and Pk fails, the sub-parsers applied are exactly       *)
(* P1..Pk, each once and in order, and the sequence returns Failure, also  *)
(* when a later sub-parser would never return.  In an alternative whose    *)
(* first succeeding branch is Pk the branches applied are exactly P1..Pk,  *)
(* each once at the incoming iterator.                                     *)
(***************************************************************************)
C15_FailureEndsSequence ==
    /\ cmb.c = "seq" =>
          \A k \in 1..Len(cmb.ps) :
              LET c == CursorAfter(cmb.ps, it, k - 1)
              IN  (c # -1 /\ Failed(At(cmb.ps[k], c))) =>
                      /\ pc = "returned"
                      /\ res = Failure
                      /\ calls = [j \in 1..k |->
                                    Call(cmb.ps[j], CursorAfter(cmb.ps, it, j - 1))]
    /\ cmb.c = "alt" =>
          \A k \in 1..Len(cmb.ps) :
              ((\A j \in 1..(k - 1) : Failed(At(cmb.ps[j], it)))
                  /\ Succeeded(At(cmb.ps[k], it))) =>
                      /\ pc = "returned"
                      /\ res = At(cmb.ps[k], it)
                      /\ calls = [j \in 1..k |-> Call(cmb.ps[j], it)]

\* The digit fails at the operator: the parser that never returns is not
\* applied.
C15_Witness ==
    /\ cmb = seq(<<digit, forever>>) /\ tokens = Scenario /\ it = 1
    /\ pc = "returned" /\ res = Failure
    /\ calls = <<Call(digit, 1)>>
    /\ At(forever, 1) = Diverge

\* The second member fails after the first succeeded.
C15_WitnessSecond ==
    /\ cmb = seq(<<one, digit>>) /\ tokens = Scenario /\ it = 0
    /\ res = Failure
    /\ calls = <<Call(one, 0), Call(digit, 1)>>

\* The first branch succeeds: the second is not applied.
C15_WitnessAlternative ==
    /\ cmb = alt(<<digit, one>>) /\ tokens = Scenario /\ it = 0
    /\ Succeeded(res)
    /\ calls = <<Call(digit, 0)>>

(***************************************************************************)
(* C16: the compile-time and the runtime variant agree: for a combinator   *)
(* built from succ, fail, one, opt, seq, alt, rep and rep1 and a token     *)
(* list, the runtime parse succeeds exactly when the compile-time one      *)
(* does, fails exactly when it does, and on success both leave the same    *)
(* remaining input.                                                        *)
(***************************************************************************)
\* Built from the combinators both variants have in common.
RECURSIVE Plain(_)
Plain(P) ==
    /\ P.c \in {"succ", "fail", "one", "opt", "seq", "alt", "rep", "rep1"}
    /\ \A k \in 1..Len(P.ps) : Plain(P.ps[k])

\* The input from iterator i on.
Remaining(i) == SubSeq(tokens, i + 1, Len(tokens))

Agree(r, c, i) ==
    /\ Succeeded(r) <=> c.kind = "success"
    /\ Failed(r) <=> c.kind = "failure"
    /\ Succeeded(r) => (r.second <= Len(tokens) /\ Remaining(r.second) = c.remaining)

C16_VariantsAgree ==
    (pc # "ready" /\ Plain(cmb)) => Agree(res, comptime(cmb, Remaining(it)), it)

\* Apart from runs that read at the end of the stream the variants agree.
VariantsAgreeWithinStream ==
    (pc # "ready" /\ Plain(cmb) /\ beyond = <<>> /\ res # Crash) =>
        Agree(res, comptime(cmb, Remaining(it)), it)

(***************************************************************************)
(* C17: a combinator applied at an iterator c within the stream,           *)
(* 0 <= c <= length, returns on success an iterator n with                 *)
(* c <= n <= length, and every iterator it hands to a sub-parser lies in   *)
(* c..length: a parse never moves backwards and never leaves the stream.   *)
(***************************************************************************)
InRange(c) ==
    /\ Succeeded(res) => (c <= res.second /\ res.second <= Len(tokens))
    /\ \A j \in 1..Len(calls) : c <= calls[j].at /\ calls[j].at <= Len(tokens)

C17_CursorsInRange ==
    (pc # "ready" /\ it \in 0..Len(tokens)) => InRange(it)

\* Apart from runs that read at the end of the stream the iterators stay in
\* range.
CursorsInRangeWithinStream ==
    (pc # "ready" /\ beyond = <<>> /\ res # Crash) => InRange(it)

(***************************************************************************)
(* C18: when P returns at every iterator and every success of P moves the  *)
(* iterator forward, repeat0(P) and repeat1(P) started in a finite stream  *)
(* eventually return, having applied P at most (remaining tokens + 1)      *)
(* times; repeat0(one) returns with the iterator at the end of the stream. *)
(***************************************************************************)
\* P never loops forever.
Terminates(P) == \A c \in 0..LastCursor : At(P, c).kind # "diverge"

\* A repetition of a sub-parser that terminates and makes progress.
Progressing == loop.st # "idle" /\ Terminates(loop.p) /\ Progress(loop.p)

C18_RepetitionTerminates ==
    Progressing =>
        LET bound == (Len(tokens) - loop.start) + 1
        IN  /\ loop.st \in {"running", "returned"}
            /\ loop.n <= bound
            /\ loop.n = bound => loop.st = "returned"
            /\ (loop.st = "returned" /\ ~loop.rep1 /\ loop.p = one) =>
                  (Succeeded(loop.ret) /\ loop.ret.second = Len(tokens))

====
